---- MODULE Spec2Model ----
(***************************************************************************)
(* A model of crates/parser/src/grammar.rs: the incremental-reparse        *)
(* dispatch table (reparser), the shared grammar primitives                *)
(* (opt_visibility, error_block) and the unit entries (source_file,        *)
(* macro_stmts, macro_items).                                              *)
(*                                                                         *)
(* The Parser (token cursor, event log, markers) and the grammar rules of  *)
(* the sub-modules paths, expressions and items live in other files of the *)
(* crate; they are modelled here from the design document (sections 3,     *)
(* 4.1, 4.2, 4.3 and 5) and are marked as such where they are defined.     *)
(***************************************************************************)
EXTENDS Integers, Sequences, FiniteSets, TLC

VARIABLES
    tokens,   \* the input: a finite sequence of token kinds (never changes)
    pos,      \* the cursor: number of raw tokens consumed so far
    events,   \* the event log
    call,     \* the last finished call: its name, arguments, result, and
              \* the cursor and the log as they were when it was made
    pc,       \* which unit entry is running ("idle" when none, "done" after)
    marker    \* the Marker `m` held by the running unit entry (0: none)

vars == <<tokens, pos, events, call, pc, marker>>

----------------------------------------------------------------------------
(* Bounds of the model.                                                    *)

\* longest token sequence given to the parser
MaxLen == 4
\* most tokens one rule of another grammar file takes into one leaf node
MaxRule == 2

Min(a, b) == IF a < b THEN a ELSE b

RECURSIVE SeqsUpTo(_, _)
SeqsUpTo(S, n) ==
    IF n = 0 THEN {<<>>}
    ELSE LET shorter == SeqsUpTo(S, n - 1)
         IN shorter \cup {Append(s, x) : s \in {t \in shorter : Len(t) = n - 1}, x \in S}

----------------------------------------------------------------------------
(* The incremental reparse dispatch: a pure lookup.                        *)

None == "None"

\* the node kinds reparser is asked about: the ten kinds of its table and
\* some kinds that are not in it
NodeKinds ==
    {"BLOCK_EXPR", "RECORD_FIELD_LIST", "RECORD_EXPR_FIELD_LIST", "VARIANT_LIST",
     "MATCH_ARM_LIST", "USE_TREE_LIST", "EXTERN_ITEM_LIST", "TOKEN_TREE",
     "ASSOC_ITEM_LIST", "ITEM_LIST",
     "FN", "STRUCT", "PATH", "TRAIT", "IMPL", "SOURCE_FILE", "ARG_LIST"}

\* Option<SyntaxKind> of the first child
FirstChildKinds == {None, "L_CURLY", "L_PAREN", "L_BRACK", "IDENT", "R_CURLY"}

\* Option<SyntaxKind> of the parent
ParentKinds == {None, "TRAIT", "IMPL", "MODULE", "FN", "MACRO_CALL", "SOURCE_FILE"}

\* mutants of reparser (each a slip a maintainer of the table could make)
reparser_item_list_needs_parent(node, first_child, parent) ==
    IF node = "BLOCK_EXPR" THEN "block_expr"
    ELSE IF node = "RECORD_FIELD_LIST" THEN "record_field_list"
    ELSE IF node = "RECORD_EXPR_FIELD_LIST" THEN "record_expr_field_list"
    ELSE IF node = "VARIANT_LIST" THEN "variant_list"
    ELSE IF node = "MATCH_ARM_LIST" THEN "match_arm_list"
    ELSE IF node = "USE_TREE_LIST" THEN "use_tree_list"
    ELSE IF node = "EXTERN_ITEM_LIST" THEN "extern_item_list"
    ELSE IF node = "TOKEN_TREE" /\ first_child = None THEN None
    ELSE IF node = "TOKEN_TREE" /\ first_child = "L_CURLY" THEN "token_tree"
    ELSE IF node = "ASSOC_ITEM_LIST"
         THEN IF parent \in {"IMPL", "TRAIT"} THEN "assoc_item_list" ELSE None
    ELSE IF node = "ITEM_LIST"
         THEN IF parent = None THEN None ELSE "item_list"
    ELSE None

reparser_assoc_any_parent(node, first_child, parent) ==
    IF node = "BLOCK_EXPR" THEN "block_expr"
    ELSE IF node = "RECORD_FIELD_LIST" THEN "record_field_list"
    ELSE IF node = "RECORD_EXPR_FIELD_LIST" THEN "record_expr_field_list"
    ELSE IF node = "VARIANT_LIST" THEN "variant_list"
    ELSE IF node = "MATCH_ARM_LIST" THEN "match_arm_list"
    ELSE IF node = "USE_TREE_LIST" THEN "use_tree_list"
    ELSE IF node = "EXTERN_ITEM_LIST" THEN "extern_item_list"
    ELSE IF node = "TOKEN_TREE" /\ first_child = None THEN None
    ELSE IF node = "TOKEN_TREE" /\ first_child = "L_CURLY" THEN "token_tree"
    ELSE IF node = "ASSOC_ITEM_LIST"
         THEN IF parent = None THEN None ELSE "assoc_item_list"
    ELSE IF node = "ITEM_LIST" THEN "item_list"
    ELSE None

reparser_any_delimiter(node, first_child, parent) ==
    IF node = "BLOCK_EXPR" THEN "block_expr"
    ELSE IF node = "RECORD_FIELD_LIST" THEN "record_field_list"
    ELSE IF node = "RECORD_EXPR_FIELD_LIST" THEN "record_expr_field_list"
    ELSE IF node = "VARIANT_LIST" THEN "variant_list"
    ELSE IF node = "MATCH_ARM_LIST" THEN "match_arm_list"
    ELSE IF node = "USE_TREE_LIST" THEN "use_tree_list"
    ELSE IF node = "EXTERN_ITEM_LIST" THEN "extern_item_list"
    ELSE IF node = "TOKEN_TREE" /\ first_child = None THEN None
    ELSE IF node = "TOKEN_TREE" /\ first_child \in {"L_CURLY", "L_PAREN", "L_BRACK"}
         THEN "token_tree"
    ELSE IF node = "ASSOC_ITEM_LIST"
         THEN IF parent \in {"IMPL", "TRAIT"} THEN "assoc_item_list" ELSE None
    ELSE IF node = "ITEM_LIST" THEN "item_list"
    ELSE None

reparser_arg_list_added(node, first_child, parent) ==
    IF node = "BLOCK_EXPR" THEN "block_expr"
    ELSE IF node = "RECORD_FIELD_LIST" THEN "record_field_list"
    ELSE IF node = "RECORD_EXPR_FIELD_LIST" THEN "record_expr_field_list"
    ELSE IF node = "VARIANT_LIST" THEN "variant_list"
    ELSE IF node = "MATCH_ARM_LIST" THEN "match_arm_list"
    ELSE IF node = "USE_TREE_LIST" THEN "use_tree_list"
    ELSE IF node = "EXTERN_ITEM_LIST" THEN "extern_item_list"
    ELSE IF node = "TOKEN_TREE" /\ first_child = None THEN None
    ELSE IF node = "TOKEN_TREE" /\ first_child = "L_CURLY" THEN "token_tree"
    ELSE IF node = "ASSOC_ITEM_LIST"
         THEN IF parent \in {"IMPL", "TRAIT"} THEN "assoc_item_list" ELSE None
    ELSE IF node = "ITEM_LIST" THEN "item_list"
    ELSE IF node = "ARG_LIST" THEN "arg_list"
    ELSE None

\* reparser: the name of the grammar rule for Some(rule), None for None.
\* The arms are tried in the order of the match; `first_child?` in the guard
\* of the TOKEN_TREE arm and `parent?` in the ASSOC_ITEM_LIST arm return None
\* from the function when the option is empty.
reparser(node, first_child, parent) ==
    IF node = "BLOCK_EXPR" THEN "block_expr"
    ELSE IF node = "RECORD_FIELD_LIST" THEN "record_field_list"
    ELSE IF node = "RECORD_EXPR_FIELD_LIST" THEN "record_expr_field_list"
    ELSE IF node = "VARIANT_LIST" THEN "variant_list"
    ELSE IF node = "MATCH_ARM_LIST" THEN "match_arm_list"
    ELSE IF node = "USE_TREE_LIST" THEN "use_tree_list"
    ELSE IF node = "EXTERN_ITEM_LIST" THEN "extern_item_list"
    ELSE IF node = "TOKEN_TREE" /\ first_child = None THEN None
    ELSE IF node = "TOKEN_TREE" /\ first_child = "L_CURLY" THEN "token_tree"
    ELSE IF node = "ASSOC_ITEM_LIST"
         THEN IF parent = None THEN None
              ELSE IF parent \in {"IMPL", "TRAIT"} THEN "assoc_item_list"
              ELSE None
    ELSE IF node = "ITEM_LIST" THEN "item_list"
    ELSE None

----------------------------------------------------------------------------
(* The Parser: token cursor and event log (Parser API, design sections     *)
(* 4.1 and 4.2).  A parser state is a record [pos, events]; the input is   *)
(* the variable tokens.                                                    *)

Parser(ps, evs) == [pos |-> ps, events |-> evs]

\* one event of the log.  Start: kind is the node kind, "TOMBSTONE" while the
\* marker is unresolved, n the forward-parent offset (0: none).  Token: kind
\* is the token kind, n the number of raw tokens it covers.  Error: kind is
\* the message.  Finish: closes the most recently opened node.
Ev(t, kind, n) == [t |-> t, kind |-> kind, n |-> n]

\* lookahead; past the end of the input the kind is EOF
nth(p, n) == IF p.pos + n < Len(tokens) THEN tokens[p.pos + n + 1] ELSE "EOF"

current(p) == nth(p, 0)

\* `::` is a composite of two `:` tokens (the inline test pub_parens_typepath
\* relies on nth(2) being `:` in `pub (super::A)`)
nth_at(p, n, kind) ==
    IF kind = "COLON2" THEN nth(p, n) = "COLON" /\ nth(p, n + 1) = "COLON"
    ELSE nth(p, n) = kind

at(p, kind) == nth_at(p, 0, kind)

push_event(p, e) == [p EXCEPT !.events = Append(@, e)]

\* start() appends a placeholder; the Marker is the placeholder's index
start(p) == push_event(p, Ev("Start", "TOMBSTONE", 0))

MarkerOf(p) == Len(p.events) + 1

\* Marker.complete(kind): assign the kind, append the close event
complete(p, m, kind) ==
    [p EXCEPT !.events = Append([@ EXCEPT ![m].kind = kind], Ev("Finish", "", 0))]

n_raw_tokens(kind) == IF kind = "COLON2" THEN 2 ELSE 1

do_bump(p, kind, n) ==
    [pos |-> p.pos + n, events |-> Append(p.events, Ev("Token", kind, n))]

\* eat(kind): consume if the current token matches, else a no-op
eat(p, kind) == IF at(p, kind) THEN do_bump(p, kind, n_raw_tokens(kind)) ELSE p

\* bump(kind) asserts the match; its callers have checked it
bump(p, kind) == eat(p, kind)

\* bump_any(): consume one token whatever it is (nothing at EOF)
bump_any(p) == IF current(p) = "EOF" THEN p ELSE do_bump(p, current(p), 1)

error(p, message) == push_event(p, Ev("Error", message, 0))

\* expect(kind): consume if it matches, else record an error, consuming nothing
expect(p, kind) == IF at(p, kind) THEN eat(p, kind) ELSE error(p, "expected " \o kind)

\* err_and_bump(message): record an error and consume one token
err_and_bump(p, message) == bump_any(error(p, message))

RECURSIVE bump_n(_, _)
bump_n(p, n) == IF n = 0 THEN p ELSE bump_n(bump_any(p), n - 1)

Remaining(p) == Len(tokens) - p.pos

----------------------------------------------------------------------------
(* Grammar rules of the sub-modules paths and expressions.  Their files    *)
(* are not part of this one; the design treats them as opaque callees that *)
(* follow the conventions of the core: events are appended in call order,  *)
(* every token is consumed by one Token event, and a non-optional rule     *)
(* produces a node or an error.  Each is the set of parser states the rule *)
(* may return.                                                             *)

\* a leaf node of the given kind over the next n tokens
leaf(p, kind, n) == complete(bump_n(start(p), n), MarkerOf(p), kind)

\* paths::use_path: a PATH node over at least one token, or an error
use_path(p) ==
    {leaf(p, "PATH", n) : n \in 1..Min(MaxRule, Remaining(p))}
        \cup {error(p, "expected identifier")}

\* the number of tokens before the next brace or the end of the input
RECURSIVE NonBraceRun(_)
NonBraceRun(p) ==
    IF current(p) \in {"L_CURLY", "R_CURLY", "EOF"} THEN 0
    ELSE 1 + NonBraceRun([p EXCEPT !.pos = @ + 1])

RECURSIVE expr_block_contents(_), stmt(_), block_expr(_)

\* expressions::block_expr: `{`, the contents, the closing `}` (expected)
block_expr(p) ==
    {complete(expect(q, "R_CURLY"), MarkerOf(p), "BLOCK_EXPR") :
        q \in expr_block_contents(bump(start(p), "L_CURLY"))}

\* expressions::stmt, called at a token: a nested block at `{`; an error and
\* one token of progress at a token no statement starts with; else one
\* statement node over tokens that are not braces
stmt(p) ==
    IF at(p, "L_CURLY") THEN block_expr(p)
    ELSE IF at(p, "R_CURLY") THEN {err_and_bump(p, "expected statement")}
    ELSE {leaf(p, "EXPR_STMT", n) : n \in 1..Min(MaxRule, NonBraceRun(p))}
            \cup {err_and_bump(p, "expected statement")}

\* expressions::expr_block_contents: statement-like fragments up to the
\* closing brace of the block, or the end of the input
expr_block_contents(p) ==
    IF at(p, "EOF") \/ at(p, "R_CURLY") THEN {p}
    ELSE UNION {expr_block_contents(q) : q \in stmt(p)}

----------------------------------------------------------------------------
(* The grammar primitives of grammar.rs.                                   *)

\* what a rule returns: the parser state and the rule's result
Ret(p, r) == [p |-> p, ret |-> r]

\* mutant: the tuple-field exception forgotten (the parenthesis is always
\* taken as a scope qualifier)
opt_visibility_no_tuple_case(p, in_tuple_field) ==
    IF current(p) = "PUB_KW"
    THEN LET p1 == bump(start(p), "PUB_KW")
             scope ==
                 IF at(p1, "L_PAREN")
                 THEN IF nth(p1, 1) \in {"CRATE_KW", "SELF_KW", "SUPER_KW", "IDENT"}
                         /\ nth(p1, 2) # "COLON"
                      THEN {expect(q, "R_PAREN") : q \in use_path(bump(p1, "L_PAREN"))}
                      ELSE IF nth(p1, 1) = "IN_KW"
                      THEN {expect(q, "R_PAREN") :
                               q \in use_path(bump(bump(p1, "L_PAREN"), "IN_KW"))}
                      ELSE {p1}
                 ELSE {p1}
         IN {Ret(complete(q, MarkerOf(p), "VISIBILITY"), TRUE) : q \in scope}
    ELSE IF current(p) = "CRATE_KW"
    THEN IF nth_at(p, 1, "COLON2") THEN {Ret(p, FALSE)}
         ELSE {Ret(complete(bump(start(p), "CRATE_KW"), MarkerOf(p), "VISIBILITY"), TRUE)}
    ELSE {Ret(p, FALSE)}

\* mutant: the marker of the `crate` arm started before the path check
opt_visibility_crate_marker_first(p, in_tuple_field) ==
    IF current(p) = "PUB_KW"
    THEN LET p1 == bump(start(p), "PUB_KW")
             scope ==
                 IF at(p1, "L_PAREN")
                 THEN IF nth(p1, 1) \in {"CRATE_KW", "SELF_KW", "SUPER_KW", "IDENT"}
                         /\ nth(p1, 2) # "COLON"
                      THEN IF ~(in_tuple_field /\ nth(p1, 1) = "IDENT")
                           THEN {expect(q, "R_PAREN") :
                                    q \in use_path(bump(p1, "L_PAREN"))}
                           ELSE {p1}
                      ELSE IF nth(p1, 1) = "IN_KW"
                      THEN {expect(q, "R_PAREN") :
                               q \in use_path(bump(bump(p1, "L_PAREN"), "IN_KW"))}
                      ELSE {p1}
                 ELSE {p1}
         IN {Ret(complete(q, MarkerOf(p), "VISIBILITY"), TRUE) : q \in scope}
    ELSE IF current(p) = "CRATE_KW"
    THEN IF nth_at(p, 1, "COLON2") THEN {Ret(start(p), FALSE)}
         ELSE {Ret(complete(bump(start(p), "CRATE_KW"), MarkerOf(p), "VISIBILITY"), TRUE)}
    ELSE {Ret(p, FALSE)}

\* mutant: the tuple-field exception applied to the scope keywords too
opt_visibility_tuple_any_scope(p, in_tuple_field) ==
    IF current(p) = "PUB_KW"
    THEN LET p1 == bump(start(p), "PUB_KW")
             scope ==
                 IF at(p1, "L_PAREN")
                 THEN IF nth(p1, 1) \in {"CRATE_KW", "SELF_KW", "SUPER_KW", "IDENT"}
                         /\ nth(p1, 2) # "COLON"
                      THEN IF ~in_tuple_field
                           THEN {expect(q, "R_PAREN") :
                                    q \in use_path(bump(p1, "L_PAREN"))}
                           ELSE {p1}
                      ELSE IF nth(p1, 1) = "IN_KW"
                      THEN {expect(q, "R_PAREN") :
                               q \in use_path(bump(bump(p1, "L_PAREN"), "IN_KW"))}
                      ELSE {p1}
                 ELSE {p1}
         IN {Ret(complete(q, MarkerOf(p), "VISIBILITY"), TRUE) : q \in scope}
    ELSE IF current(p) = "CRATE_KW"
    THEN IF nth_at(p, 1, "COLON2") THEN {Ret(p, FALSE)}
         ELSE {Ret(complete(bump(start(p), "CRATE_KW"), MarkerOf(p), "VISIBILITY"), TRUE)}
    ELSE {Ret(p, FALSE)}

\* mutant: the `p.nth(2) != T![:]` guard of the first arm forgotten
opt_visibility_no_colon_guard(p, in_tuple_field) ==
    IF current(p) = "PUB_KW"
    THEN LET p1 == bump(start(p), "PUB_KW")
             scope ==
                 IF at(p1, "L_PAREN")
                 THEN IF nth(p1, 1) \in {"CRATE_KW", "SELF_KW", "SUPER_KW", "IDENT"}
                      THEN IF ~(in_tuple_field /\ nth(p1, 1) = "IDENT")
                           THEN {expect(q, "R_PAREN") :
                                    q \in use_path(bump(p1, "L_PAREN"))}
                           ELSE {p1}
                      ELSE IF nth(p1, 1) = "IN_KW"
                      THEN {expect(q, "R_PAREN") :
                               q \in use_path(bump(bump(p1, "L_PAREN"), "IN_KW"))}
                      ELSE {p1}
                 ELSE {p1}
         IN {Ret(complete(q, MarkerOf(p), "VISIBILITY"), TRUE) : q \in scope}
    ELSE IF current(p) = "CRATE_KW"
    THEN IF nth_at(p, 1, "COLON2") THEN {Ret(p, FALSE)}
         ELSE {Ret(complete(bump(start(p), "CRATE_KW"), MarkerOf(p), "VISIBILITY"), TRUE)}
    ELSE {Ret(p, FALSE)}

\* opt_visibility(p, in_tuple_field): the set of (parser state, result) it may
\* return; p1 is the parser after `let m = p.start(); p.bump(T![pub])`, scope
\* the states after the `if p.at(T!['('])` statement
opt_visibility(p, in_tuple_field) ==
    IF current(p) = "PUB_KW"
    THEN LET p1 == bump(start(p), "PUB_KW")
             scope ==
                 IF at(p1, "L_PAREN")
                 THEN IF nth(p1, 1) \in {"CRATE_KW", "SELF_KW", "SUPER_KW", "IDENT"}
                         /\ nth(p1, 2) # "COLON"
                      THEN IF ~(in_tuple_field /\ nth(p1, 1) = "IDENT")
                           THEN {expect(q, "R_PAREN") :
                                    q \in use_path(bump(p1, "L_PAREN"))}
                           ELSE {p1}
                      ELSE IF nth(p1, 1) = "IN_KW"
                      THEN {expect(q, "R_PAREN") :
                               q \in use_path(bump(bump(p1, "L_PAREN"), "IN_KW"))}
                      ELSE {p1}
                 ELSE {p1}
         IN {Ret(complete(q, MarkerOf(p), "VISIBILITY"), TRUE) : q \in scope}
    ELSE IF current(p) = "CRATE_KW"
    THEN IF nth_at(p, 1, "COLON2") THEN {Ret(p, FALSE)}
         ELSE {Ret(complete(bump(start(p), "CRATE_KW"), MarkerOf(p), "VISIBILITY"), TRUE)}
    ELSE {Ret(p, FALSE)}

\* mutant: the marker completed before the closing brace is eaten
error_block_closes_early(p, message) ==
    {eat(complete(q, MarkerOf(p), "ERROR"), "R_CURLY") :
        q \in expr_block_contents(bump(error(start(p), message), "L_CURLY"))}

\* mutant: the closing brace expected (an error when it is missing), not eaten
error_block_expects_brace(p, message) ==
    {complete(expect(q, "R_CURLY"), MarkerOf(p), "ERROR") :
        q \in expr_block_contents(bump(error(start(p), message), "L_CURLY"))}

\* mutant: the marker is completed only when the closing brace was there
error_block_completes_at_brace(p, message) ==
    {IF at(q, "R_CURLY") THEN complete(eat(q, "R_CURLY"), MarkerOf(p), "ERROR") ELSE q :
        q \in expr_block_contents(bump(error(start(p), message), "L_CURLY"))}

\* error_block(p, message), called at `{` (its assert)
error_block(p, message) ==
    {complete(eat(q, "R_CURLY"), MarkerOf(p), "ERROR") :
        q \in expr_block_contents(bump(error(start(p), message), "L_CURLY"))}

----------------------------------------------------------------------------
(* The remaining primitives of grammar.rs, and what they call.             *)

\* Parser::err_recover(message, recovery): record an error, then skip tokens
\* until one of the recovery set or a brace is reached (design 4.1)
RECURSIVE skip_until(_, _)
skip_until(p, stop) ==
    IF current(p) \in stop \cup {"L_CURLY", "R_CURLY", "EOF"} THEN p
    ELSE skip_until(bump_any(p), stop)

err_recover(p, message, recovery) == skip_until(error(p, message), recovery)

\* types::type_no_bounds: a type node over at least one token, or an error
type_no_bounds(p) ==
    {leaf(p, "PATH_TYPE", n) : n \in 1..Min(MaxRule, Remaining(p))}
        \cup {error(p, "expected type")}

\* mutant: the else branch (the error) forgotten
name_r_silent(p, recovery) ==
    IF at(p, "IDENT") THEN complete(bump(start(p), "IDENT"), MarkerOf(p), "NAME")
    ELSE p

\* name_r(p, recovery)
name_r(p, recovery) ==
    IF at(p, "IDENT") THEN complete(bump(start(p), "IDENT"), MarkerOf(p), "NAME")
    ELSE err_recover(p, "expected a name", recovery)

\* TokenSet::EMPTY
EMPTY == {}

\* name(p)
name(p) == name_r(p, EMPTY)

\* mutant: the error recorded without the bump
name_ref_error_only(p) ==
    IF at(p, "IDENT") THEN complete(bump(start(p), "IDENT"), MarkerOf(p), "NAME_REF")
    ELSE error(p, "expected identifier")

\* name_ref(p)
name_ref(p) ==
    IF at(p, "IDENT") THEN complete(bump(start(p), "IDENT"), MarkerOf(p), "NAME_REF")
    ELSE err_and_bump(p, "expected identifier")

\* mutant: the token recorded as an IDENT whatever it is (a remapping bump)
name_ref_or_index_remaps(p) ==
    complete(do_bump(start(p), "IDENT", 1), MarkerOf(p), "NAME_REF")

\* name_ref_or_index(p), called at IDENT or INT_NUMBER (its assert)
name_ref_or_index(p) == complete(bump_any(start(p)), MarkerOf(p), "NAME_REF")

\* lifetime(p), called at LIFETIME_IDENT (its assert)
lifetime(p) == complete(bump(start(p), "LIFETIME_IDENT"), MarkerOf(p), "LIFETIME")

\* abi(p), called at `extern` (its assert)
abi(p) == complete(eat(bump(start(p), "EXTERN_KW"), "STRING"), MarkerOf(p), "ABI")

\* mutant: the marker started before `as` is looked for
opt_rename_marker_first(p) ==
    LET p1 == eat(start(p), "AS_KW")
        p2 == IF at(p, "AS_KW")
              THEN IF at(p1, "UNDERSCORE") THEN eat(p1, "UNDERSCORE") ELSE name(p1)
              ELSE p1
    IN complete(p2, MarkerOf(p), "RENAME")

\* opt_rename(p); p1 is the parser after `p.bump(T![as])`
opt_rename(p) ==
    IF at(p, "AS_KW")
    THEN LET p1 == bump(start(p), "AS_KW")
             p2 == IF at(p1, "UNDERSCORE") THEN eat(p1, "UNDERSCORE") ELSE name(p1)
         IN complete(p2, MarkerOf(p), "RENAME")
    ELSE p

\* opt_ret_type(p): the set of (parser state, result) it may return
opt_ret_type(p) ==
    IF at(p, "THIN_ARROW")
    THEN {Ret(complete(q, MarkerOf(p), "RET_TYPE"), TRUE) :
             q \in type_no_bounds(bump(start(p), "THIN_ARROW"))}
    ELSE {Ret(p, FALSE)}

----------------------------------------------------------------------------
(* The state machine: the calls a client of grammar.rs makes.              *)

NoCall == [op |-> "none", args |-> <<>>, ret |-> None, pos0 |-> 0, events0 |-> <<>>]

Called(op, args, ret) ==
    [op |-> op, args |-> args, ret |-> ret, pos0 |-> pos, events0 |-> events]

InitParser(inputs) ==
    /\ tokens \in inputs
    /\ pos = 0
    /\ events = <<>>
    /\ call = NoCall
    /\ pc = "idle"
    /\ marker = 0

\* reparser(node, first_child, parent)
Reparser ==
    /\ pc = "idle"
    /\ \E node \in NodeKinds, first_child \in FirstChildKinds, parent \in ParentKinds :
          call' = Called("reparser", <<node, first_child, parent>>,
                         reparser(node, first_child, parent))
    /\ UNCHANGED <<tokens, pos, events, pc, marker>>

\* opt_visibility(p, in_tuple_field)
OptVisibility ==
    /\ pc = "idle"
    /\ \E in_tuple_field \in BOOLEAN :
          \E r \in opt_visibility(Parser(pos, events), in_tuple_field) :
             /\ pos' = r.p.pos
             /\ events' = r.p.events
             /\ call' = Called("opt_visibility", <<in_tuple_field>>, r.ret)
    /\ UNCHANGED <<tokens, pc, marker>>

\* error_block(p, message); the assert makes a call elsewhere than at `{` a
\* panic, which no caller in the crate provokes
ErrorBlock ==
    /\ pc = "idle"
    /\ at(Parser(pos, events), "L_CURLY")
    /\ \E q \in error_block(Parser(pos, events), "error block") :
          /\ pos' = q.pos
          /\ events' = q.events
          /\ call' = Called("error_block", <<"error block">>, None)
    /\ UNCHANGED <<tokens, pc, marker>>

----------------------------------------------------------------------------
(* The unit entries (entry::top), one step per statement or loop           *)
(* iteration, so that their termination is a property of the model.        *)

Here == Parser(pos, events)

Goto(q) == pos' = q.pos /\ events' = q.events

\* an entry is the outermost call of a parse: the Parser is new
Fresh == pos = 0 /\ events = <<>>

\* items::item_or_macro, called at a token (items.rs is not part of this
\* file): a brace region no construct owns goes to error_block; else one item
\* node over tokens that are not braces, or an error and one token of progress
item_or_macro(p) ==
    IF at(p, "L_CURLY") THEN error_block(p, "expected an item")
    ELSE IF at(p, "R_CURLY") THEN {err_and_bump(p, "unmatched R_CURLY")}
    ELSE {leaf(p, "ITEM", n) : n \in 1..Min(MaxRule, NonBraceRun(p))}
            \cup {err_and_bump(p, "expected an item")}

\* source_file: let m = p.start(); p.eat(SHEBANG);
SourceFileStart ==
    /\ pc = "idle" /\ Fresh
    /\ Goto(eat(start(Here), "SHEBANG"))
    /\ marker' = MarkerOf(Here)
    /\ pc' = "source_file"
    /\ call' = Called("source_file", <<>>, None)
    /\ UNCHANGED tokens

\* macro_items: let m = p.start();
MacroItemsStart ==
    /\ pc = "idle" /\ Fresh
    /\ Goto(start(Here))
    /\ marker' = MarkerOf(Here)
    /\ pc' = "macro_items"
    /\ call' = Called("macro_items", <<>>, None)
    /\ UNCHANGED tokens

\* items::mod_contents(p, false): one iteration of its loop, which runs
\* until the end of the input
ModContentsItem ==
    /\ pc \in {"source_file", "macro_items"}
    /\ ~at(Here, "EOF")
    /\ \E q \in item_or_macro(Here) : Goto(q)
    /\ UNCHANGED <<tokens, call, pc, marker>>

\* source_file: m.complete(p, SOURCE_FILE), once mod_contents has returned
SourceFileComplete ==
    /\ pc = "source_file"
    /\ at(Here, "EOF")
    /\ Goto(complete(Here, marker, "SOURCE_FILE"))
    /\ pc' = "done"
    /\ UNCHANGED <<tokens, call, marker>>

\* mutant: macro_items completes its marker with the kind of source_file
MacroItemsComplete_as_source_file ==
    /\ pc = "macro_items"
    /\ at(Here, "EOF")
    /\ Goto(complete(Here, marker, "SOURCE_FILE"))
    /\ pc' = "done"
    /\ UNCHANGED <<tokens, call, marker>>

\* macro_items: m.complete(p, MACRO_ITEMS), once mod_contents has returned
MacroItemsComplete ==
    /\ pc = "macro_items"
    /\ at(Here, "EOF")
    /\ Goto(complete(Here, marker, "MACRO_ITEMS"))
    /\ pc' = "done"
    /\ UNCHANGED <<tokens, call, marker>>

\* macro_stmts: let m = p.start();
MacroStmtsStart ==
    /\ pc = "idle" /\ Fresh
    /\ Goto(start(Here))
    /\ marker' = MarkerOf(Here)
    /\ pc' = "macro_stmts"
    /\ call' = Called("macro_stmts", <<>>, None)
    /\ UNCHANGED tokens

\* mutant: the `;` branch continues without consuming the `;`
MacroStmtsSemi_no_bump ==
    /\ pc = "macro_stmts"
    /\ ~at(Here, "EOF")
    /\ at(Here, "SEMICOLON")
    /\ UNCHANGED vars

\* mutant: the `;` at the head of an iteration is given to the statement rule
MacroStmtsSemi_calls_stmt ==
    /\ pc = "macro_stmts"
    /\ ~at(Here, "EOF")
    /\ at(Here, "SEMICOLON")
    /\ \E q \in stmt(Here) : Goto(q)
    /\ UNCHANGED <<tokens, call, pc, marker>>

\* macro_stmts, an iteration at `;`: p.bump(T![;]); continue;
MacroStmtsSemi ==
    /\ pc = "macro_stmts"
    /\ ~at(Here, "EOF")
    /\ at(Here, "SEMICOLON")
    /\ Goto(bump(Here, "SEMICOLON"))
    /\ UNCHANGED <<tokens, call, pc, marker>>

\* macro_stmts, any other iteration: expressions::stmt(p, Optional, true)
MacroStmtsStmt ==
    /\ pc = "macro_stmts"
    /\ ~at(Here, "EOF")
    /\ ~at(Here, "SEMICOLON")
    /\ \E q \in stmt(Here) : Goto(q)
    /\ UNCHANGED <<tokens, call, pc, marker>>

\* macro_stmts: the loop is left at EOF; m.complete(p, MACRO_STMTS)
MacroStmtsComplete ==
    /\ pc = "macro_stmts"
    /\ at(Here, "EOF")
    /\ Goto(complete(Here, marker, "MACRO_STMTS"))
    /\ pc' = "done"
    /\ UNCHANGED <<tokens, call, marker>>

UnitEntry ==
    \/ SourceFileStart
    \/ MacroItemsStart
    \/ ModContentsItem
    \/ SourceFileComplete
    \/ MacroItemsComplete
    \/ MacroStmtsStart
    \/ MacroStmtsSemi
    \/ MacroStmtsStmt
    \/ MacroStmtsComplete

----------------------------------------------------------------------------
(* Calls of the remaining primitives and of the fragment entries           *)
(* (entry::prefix).                                                        *)

\* the calls of the primitives explored: a call is made while the log holds
\* fewer error events than this (a call at the end of the input, or at a
\* brace, may record an error without consuming, and so may the next one)
MaxErrors == 2

IsErrorEvent(e) == e.t = "Error"

Room == Len(SelectSeq(events, IsErrorEvent)) < MaxErrors

\* a finished call: the parser it leaves and the record of the call
Returns(op, args, q, ret) ==
    /\ Goto(q)
    /\ call' = Called(op, args, ret)
    /\ UNCHANGED <<tokens, pc, marker>>

\* the recovery set a caller gives name_r (name gives it the empty one)
RecoverySets == {{"SEMICOLON", "COLON"}}

NameR ==
    /\ pc = "idle"
    /\ \E recovery \in RecoverySets :
          Returns("name_r", <<recovery>>, name_r(Here, recovery), None)

Name ==
    /\ pc = "idle"
    /\ Returns("name", <<>>, name(Here), None)

NameRef ==
    /\ pc = "idle"
    /\ Returns("name_ref", <<>>, name_ref(Here), None)

NameRefOrIndex ==
    /\ pc = "idle"
    /\ at(Here, "IDENT") \/ at(Here, "INT_NUMBER")
    /\ Returns("name_ref_or_index", <<>>, name_ref_or_index(Here), None)

Lifetime ==
    /\ pc = "idle"
    /\ at(Here, "LIFETIME_IDENT")
    /\ Returns("lifetime", <<>>, lifetime(Here), None)

Abi ==
    /\ pc = "idle"
    /\ at(Here, "EXTERN_KW")
    /\ Returns("abi", <<>>, abi(Here), None)

OptRename ==
    /\ pc = "idle"
    /\ Returns("opt_rename", <<>>, opt_rename(Here), None)

OptRetType ==
    /\ pc = "idle"
    /\ \E r \in opt_ret_type(Here) : Returns("opt_ret_type", <<>>, r.p, r.ret)

\* the rules the fragment entries start (other grammar files): one node of
\* the rule's kind over at least one token, or an error and one token of
\* progress
production(p, kind, message) ==
    {leaf(p, kind, n) : n \in 1..Min(MaxRule, Remaining(p))}
        \cup {err_and_bump(p, message)}

pattern_single(p) == production(p, "IDENT_PAT", "expected pattern")
type_(p) == production(p, "PATH_TYPE", "expected type")
expr(p) == production(p, "PATH_EXPR", "expected expression")
type_path(p) == production(p, "PATH", "expected identifier")
meta(p) == production(p, "META", "expected identifier")

\* entry::prefix::vis: let _ = opt_visibility(p, false);
Vis ==
    /\ pc = "idle" /\ Fresh
    /\ \E r \in opt_visibility(Here, FALSE) : Returns("vis", <<>>, r.p, None)

\* entry::prefix::block (block_expr starts at `{`)
Block ==
    /\ pc = "idle" /\ Fresh
    /\ at(Here, "L_CURLY")
    /\ \E q \in block_expr(Here) : Returns("block", <<>>, q, None)

\* entry::prefix::stmt
Stmt ==
    /\ pc = "idle" /\ Fresh
    /\ \E q \in stmt(Here) : Returns("stmt", <<>>, q, None)

\* entry::prefix::pat
Pat ==
    /\ pc = "idle" /\ Fresh
    /\ \E q \in pattern_single(Here) : Returns("pat", <<>>, q, None)

\* entry::prefix::ty
Ty ==
    /\ pc = "idle" /\ Fresh
    /\ \E q \in type_(Here) : Returns("ty", <<>>, q, None)

\* entry::prefix::expr
Expr ==
    /\ pc = "idle" /\ Fresh
    /\ \E q \in expr(Here) : Returns("expr", <<>>, q, None)

\* entry::prefix::path
Path ==
    /\ pc = "idle" /\ Fresh
    /\ \E q \in type_path(Here) : Returns("path", <<>>, q, None)

\* entry::prefix::item
Item ==
    /\ pc = "idle" /\ Fresh
    /\ \E q \in item_or_macro(Here) : Returns("item", <<>>, q, None)

\* entry::prefix::meta_item
MetaItem ==
    /\ pc = "idle" /\ Fresh
    /\ \E q \in meta(Here) : Returns("meta_item", <<>>, q, None)

\* as many open as close events among the events i..j of es
Balanced(es, i, j) ==
    Cardinality({k \in i..j : es[k].t = "Start"})
        = Cardinality({k \in i..j : es[k].t = "Finish"})

\* the open event that the close event at index j of es closes: the nearest
\* open event from which the log is balanced up to j
MatchingStart(es, j) ==
    CHOOSE i \in 1..j :
        /\ es[i].t = "Start" /\ Balanced(es, i, j)
        /\ \A l \in (i + 1)..j : ~(es[l].t = "Start" /\ Balanced(es, l, j))

\* mutant: the new marker is started, the completed one not linked to it
precede_no_link(p, c) == start(p)

\* CompletedMarker.precede(p) for the completed marker at index c (design
\* 3 and 4.2; the Marker API is not part of this file): a new placeholder is
\* appended, and the open event of c gets the offset to it as forward parent
precede(p, c) ==
    start([p EXCEPT !.events[c].n = Len(p.events) + 1 - c])

\* the chain of forward parents of the open event at index i, innermost first
RECURSIVE forward_parents(_, _)
forward_parents(es, i) ==
    <<i>> \o (IF es[i].n = 0 THEN <<>> ELSE forward_parents(es, i + es[i].n))

\* the Tree Builder's reading of a log (design 3 and 5): the open, token and
\* close steps in tree order.  At an open event its forward parents are
\* opened first, outermost first, and are skipped where they lie in the log;
\* unresolved placeholders open nothing; errors are out of band.
RECURSIVE process(_, _, _)
process(es, i, taken) ==
    IF i > Len(es) THEN <<>>
    ELSE IF es[i].t = "Start"
    THEN IF i \in taken \/ es[i].kind = "TOMBSTONE" THEN process(es, i + 1, taken)
         ELSE LET fp == forward_parents(es, i)
                  opened == SelectSeq([k \in 1..Len(fp) |-> fp[Len(fp) + 1 - k]],
                                      LAMBDA j : es[j].kind # "TOMBSTONE")
              IN [k \in 1..Len(opened) |-> [t |-> "Open", at |-> opened[k], n |-> 0]]
                    \o process(es, i + 1, taken \cup {fp[k] : k \in 1..Len(fp)})
    ELSE IF es[i].t = "Finish"
    THEN <<[t |-> "Close", at |-> i, n |-> 0]>> \o process(es, i + 1, taken)
    ELSE IF es[i].t = "Token"
    THEN <<[t |-> "Token", at |-> i, n |-> es[i].n]>> \o process(es, i + 1, taken)
    ELSE process(es, i + 1, taken)

\* most forward-parent links in a log to which one more is added
MaxPrecede == 2

\* the kinds of node built by preceding an operand
PrecedeKinds == {"BIN_EXPR", "FIELD_EXPR"}

\* let m = lhs.precede(p): lhs is the node completed last
Precede ==
    /\ pc = "idle"
    /\ events # <<>> /\ events[Len(events)].t = "Finish"
    /\ Cardinality({i \in 1..Len(events) : events[i].n # 0 /\ events[i].t = "Start"})
         < MaxPrecede
    /\ LET c == MatchingStart(events, Len(events))
       IN /\ Goto(precede(Here, c))
          /\ call' = Called("precede", <<c>>, Len(events) + 1)
          /\ marker' = Len(events) + 1
    /\ pc' = "preceding"
    /\ UNCHANGED tokens

\* what a rule parses between precede and complete: an operator token, or
\* an operand
PrecedeChild ==
    /\ pc = "preceding"
    /\ ~at(Here, "EOF")
    /\ \E q \in {bump_any(Here), name_ref_or_index(Here)} : Goto(q)
    /\ UNCHANGED <<tokens, call, pc, marker>>

\* m.complete(p, kind)
PrecedeComplete ==
    /\ pc = "preceding"
    /\ \E kind \in PrecedeKinds : Goto(complete(Here, marker, kind))
    /\ pc' = "idle"
    /\ UNCHANGED <<tokens, call, marker>>

Primitive ==
    \/ OptVisibility
    \/ ErrorBlock
    \/ NameR
    \/ Name
    \/ NameRef
    \/ NameRefOrIndex
    \/ Lifetime
    \/ Abi
    \/ OptRename
    \/ OptRetType

FragmentEntry ==
    \/ Vis
    \/ Block
    \/ Stmt
    \/ Pat
    \/ Ty
    \/ Expr
    \/ Path
    \/ Item
    \/ MetaItem

\* longest token sequence given to the primitives and the fragment entries
MaxPrimLen == 3

\* the constructs the primitives parse, each with the token kinds it is made of
InputKinds ==
    { {"PUB_KW", "L_PAREN", "CRATE_KW"},
      {"CRATE_KW", "COLON"},
      {"IDENT", "INT_NUMBER"},
      {"LIFETIME_IDENT", "IDENT"},
      {"EXTERN_KW", "STRING"},
      {"AS_KW", "UNDERSCORE", "IDENT"},
      {"THIN_ARROW", "IDENT"},
      {"L_CURLY", "R_CURLY"},
      {"SEMICOLON", "IDENT"} }

AllInputs == UNION {SeqsUpTo(kinds, MaxPrimLen) : kinds \in InputKinds}

\* the tokens of visibility modifiers and of what may follow them
VisKinds ==
    {"PUB_KW", "CRATE_KW", "SELF_KW", "SUPER_KW", "IN_KW", "IDENT",
     "L_PAREN", "R_PAREN", "COLON"}

\* the tokens of brace-delimited regions and statement lists
BlockKinds == {"L_CURLY", "R_CURLY", "SEMICOLON", "IDENT", "SHEBANG"}

InitReparser == InitParser({<<>>})
SpecReparser == InitReparser /\ [][Reparser]_vars

InitVis == InitParser(SeqsUpTo(VisKinds, MaxLen))
SpecVis == InitVis /\ [][OptVisibility]_vars

InitBlock == InitParser(SeqsUpTo(BlockKinds, MaxLen))
SpecBlock == InitBlock /\ [][ErrorBlock]_vars


\* a unit entry runs to its end without interruption: the parser is one
\* synchronous call, so a step that can be taken is taken
InitEntry == InitParser(SeqsUpTo(BlockKinds, MaxLen))
SpecEntry == InitEntry /\ [][UnitEntry]_vars /\ WF_vars(UnitEntry)

\* any sequence of calls of the primitives and of the entries of the file
InitAll == InitParser(AllInputs)
NextAll == (Room /\ Primitive) \/ FragmentEntry \/ UnitEntry
SpecAll == InitAll /\ [][NextAll]_vars

\* operands completed by a leaf rule, preceded, extended and completed
OperandKinds == {"IDENT", "INT_NUMBER"}
InitPrecede == InitParser(SeqsUpTo(OperandKinds, MaxPrimLen))
NextPrecede == NameRefOrIndex \/ Precede \/ PrecedeChild \/ PrecedeComplete
SpecPrecede == InitPrecede /\ [][NextPrecede]_vars

----------------------------------------------------------------------------
(* Vocabulary of the properties.                                           *)

\* the events the last call appended
NewEvents == SubSeq(events, Len(call.events0) + 1, Len(events))

\* the log as it was before the last call is still the head of the log
LogKept ==
    /\ Len(events) >= Len(call.events0)
    /\ SubSeq(events, 1, Len(call.events0)) = call.events0

\* the token at offset n from the cursor position at which the call was made
Ahead(n) == IF call.pos0 + n < Len(tokens) THEN tokens[call.pos0 + n + 1] ELSE "EOF"

Token(kind) == Ev("Token", kind, 1)

\* nodes open after the first i events of es
Depth(es, i) ==
    Cardinality({j \in 1..i : es[j].t = "Start"})
        - Cardinality({j \in 1..i : es[j].t = "Finish"})

\* es is exactly one completed node of the given kind: its open event comes
\* first, its close event last, and every other event lies between them
OneNode(es, kind) ==
    /\ Len(es) >= 2
    /\ es[1] = Ev("Start", kind, 0)
    /\ es[Len(es)] = Ev("Finish", "", 0)
    /\ \A i \in 1..(Len(es) - 1) : Depth(es, i) >= 1
    /\ Depth(es, Len(es)) = 0

\* no marker is left unresolved in es
AllResolved(es) == \A i \in 1..Len(es) : es[i].kind # "TOMBSTONE"

\* raw tokens consumed by the Token events of es
RECURSIVE RawTokens(_)
RawTokens(es) ==
    IF es = <<>> THEN 0
    ELSE (IF Head(es).t = "Token" THEN Head(es).n ELSE 0) + RawTokens(Tail(es))

IsTokenEvent(e) == e.t = "Token"

\* the Token events of the log, in order, are the input tokens, in order:
\* each token is consumed by exactly one of them
EachTokenOnce ==
    LET consumed == SelectSeq(events, IsTokenEvent)
    IN /\ Len(consumed) = Len(tokens)
       /\ \A k \in 1..Len(consumed) : consumed[k] = Token(tokens[k])

\* the index (from 0) of the `}` that closes the region opened just before
\* index j at nesting depth d, or -1 if the input ends first
RECURSIVE ClosingBrace(_, _)
ClosingBrace(j, d) ==
    IF j >= Len(tokens) THEN -1
    ELSE IF tokens[j + 1] = "L_CURLY" THEN ClosingBrace(j + 1, d + 1)
    ELSE IF tokens[j + 1] = "R_CURLY"
         THEN IF d = 0 THEN j ELSE ClosingBrace(j + 1, d - 1)
    ELSE ClosingBrace(j + 1, d)

----------------------------------------------------------------------------
(* The reparse table.                                                      *)

ReparserCalled == call.op = "reparser"

\* the kinds the table maps without looking at the context, and their rules
ContextFreeRule(node) ==
    CASE node = "BLOCK_EXPR" -> "block_expr"
      [] node = "RECORD_FIELD_LIST" -> "record_field_list"
      [] node = "VARIANT_LIST" -> "variant_list"
      [] node = "MATCH_ARM_LIST" -> "match_arm_list"
      [] node = "USE_TREE_LIST" -> "use_tree_list"
      [] node = "EXTERN_ITEM_LIST" -> "extern_item_list"
      [] node = "ITEM_LIST" -> "item_list"

ContextFreeKinds ==
    {"BLOCK_EXPR", "RECORD_FIELD_LIST", "VARIANT_LIST", "MATCH_ARM_LIST",
     "USE_TREE_LIST", "EXTERN_ITEM_LIST", "ITEM_LIST"}

\* C1: for each of the seven context-free node kinds reparser returns that
\* kind's grammar rule, whatever first_child and parent are (absent included).
C1_ContextFreeKindsAlwaysMap ==
    (ReparserCalled /\ call.args[1] \in ContextFreeKinds)
        => call.ret = ContextFreeRule(call.args[1])

C1_Witness ==
    /\ ReparserCalled
    /\ call.args = <<"ITEM_LIST", None, None>>
    /\ call.ret = "item_list"

\* C2: for ASSOC_ITEM_LIST reparser returns assoc_item_list exactly when the
\* parent is present and is TRAIT or IMPL, and none otherwise, whatever
\* first_child is.
C2_AssocItemListNeedsTraitOrImpl ==
    (ReparserCalled /\ call.args[1] = "ASSOC_ITEM_LIST")
        => /\ call.ret \in {"assoc_item_list", None}
           /\ call.ret = "assoc_item_list" <=> call.args[3] \in {"TRAIT", "IMPL"}

C2_Witness ==
    /\ ReparserCalled
    /\ call.args = <<"ASSOC_ITEM_LIST", "L_CURLY", "MODULE">>
    /\ call.ret = None

\* C3: for TOKEN_TREE reparser returns token_tree exactly when first_child is
\* present and is `{`, and none otherwise, whatever parent is.
C3_TokenTreeNeedsBrace ==
    (ReparserCalled /\ call.args[1] = "TOKEN_TREE")
        => /\ call.ret \in {"token_tree", None}
           /\ call.ret = "token_tree" <=> call.args[2] = "L_CURLY"

C3_Witness ==
    /\ ReparserCalled
    /\ call.args = <<"TOKEN_TREE", "L_PAREN", "MACRO_CALL">>
    /\ call.ret = None

\* the nine kinds the design lists for the reparse table
ListedKinds == ContextFreeKinds \cup {"ASSOC_ITEM_LIST", "TOKEN_TREE"}

\* C4 (as stated): for every node kind outside the nine listed kinds reparser
\* returns none, whatever first_child and parent are.
C4_UnlistedKindsReturnNone ==
    (ReparserCalled /\ call.args[1] \notin ListedKinds) => call.ret = None

\* C4 (amended): for every node kind outside the nine listed kinds and other
\* than RECORD_EXPR_FIELD_LIST reparser returns none; RECORD_EXPR_FIELD_LIST
\* maps to record_expr_field_list whatever first_child and parent are.
C4_KindsOutsideTheTableReturnNone ==
    ReparserCalled
        => /\ call.args[1] \notin ListedKinds \cup {"RECORD_EXPR_FIELD_LIST"}
                => call.ret = None
           /\ call.args[1] = "RECORD_EXPR_FIELD_LIST"
                => call.ret = "record_expr_field_list"

C4_Witness ==
    /\ ReparserCalled
    /\ call.args = <<"ARG_LIST", "L_PAREN", "FN">>
    /\ call.ret = None

----------------------------------------------------------------------------
(* opt_visibility.                                                         *)

OptVisibilityCalled == call.op = "opt_visibility"

\* the call made only a VISIBILITY node holding `pub`, and stopped before `(`
OnlyPubConsumed ==
    /\ call.ret = TRUE
    /\ LogKept
    /\ NewEvents = <<Ev("Start", "VISIBILITY", 0), Token("PUB_KW"), Ev("Finish", "", 0)>>
    /\ pos = call.pos0 + 1
    /\ at(Here, "L_PAREN")

PubParenIdentParen ==
    /\ Ahead(0) = "PUB_KW"
    /\ Ahead(1) = "L_PAREN"
    /\ Ahead(2) = "IDENT"
    /\ Ahead(3) = "R_PAREN"

\* C5: with in_tuple_field = true at `pub ( IDENT )`, opt_visibility consumes
\* only `pub`, completes a VISIBILITY node holding just that token, returns
\* true and leaves the cursor on `(`.
C5_TupleFieldKeepsParens ==
    (OptVisibilityCalled /\ call.args[1] = TRUE /\ PubParenIdentParen)
        => OnlyPubConsumed

C5_Witness ==
    /\ OptVisibilityCalled
    /\ call.args[1] = TRUE
    /\ PubParenIdentParen
    /\ OnlyPubConsumed

CrateThenPathSeparator ==
    /\ Ahead(0) = "CRATE_KW"
    /\ Ahead(1) = "COLON"
    /\ Ahead(2) = "COLON"

\* C6: at `crate` followed by `::`, opt_visibility returns false and leaves
\* the cursor and the event log exactly as they were, for either value of
\* in_tuple_field.
C6_CratePathIsNoVisibility ==
    (OptVisibilityCalled /\ CrateThenPathSeparator)
        => /\ call.ret = FALSE
           /\ pos = call.pos0
           /\ events = call.events0

C6_Witness ==
    /\ OptVisibilityCalled
    /\ CrateThenPathSeparator
    /\ Ahead(3) = "IDENT"
    /\ call.args[1] = TRUE
    /\ call.ret = FALSE

\* `pub (` followed by a scope the rule takes as a qualifier
ScopeQualifierAhead ==
    /\ Ahead(0) = "PUB_KW"
    /\ Ahead(1) = "L_PAREN"
    /\ \/ Ahead(2) \in {"CRATE_KW", "SELF_KW", "SUPER_KW"} /\ Ahead(3) # "COLON"
       \/ Ahead(2) = "IN_KW"
       \/ call.args[1] = FALSE /\ Ahead(2) = "IDENT" /\ Ahead(3) # "COLON"

\* the event before the node's close is the `)` token, or, when the token
\* after the path is no `)`, the error that says so
ClosedOrReported(es) ==
    \/ es[Len(es) - 1] = Token("R_PAREN")
    \/ /\ es[Len(es) - 1] = Ev("Error", "expected R_PAREN", 0)
       /\ ~at(Here, "R_PAREN")

\* C7: at `pub (` followed by crate, self or super (next token not `:`) or by
\* `in`, and with in_tuple_field = false also by a plain identifier (next
\* token not `:`), opt_visibility returns true and makes one VISIBILITY node
\* that holds `pub`, `(`, (`in`,) the events of the scope path and the `)` if
\* it is there; every token the call consumed lies in that node.
C7_ScopeQualifierInsideVisibility ==
    (OptVisibilityCalled /\ ScopeQualifierAhead)
        => /\ call.ret = TRUE
           /\ LogKept
           /\ OneNode(NewEvents, "VISIBILITY")
           /\ AllResolved(NewEvents)
           /\ Len(NewEvents) >= 6
           /\ NewEvents[2] = Token("PUB_KW")
           /\ NewEvents[3] = Token("L_PAREN")
           /\ Ahead(2) = "IN_KW" => NewEvents[4] = Token("IN_KW")
           /\ ClosedOrReported(NewEvents)
           /\ pos = call.pos0 + RawTokens(NewEvents)

C7_Witness ==
    /\ OptVisibilityCalled
    /\ call.args[1] = TRUE
    /\ Ahead(0) = "PUB_KW"
    /\ Ahead(1) = "L_PAREN"
    /\ Ahead(2) = "CRATE_KW"
    /\ Ahead(3) = "R_PAREN"
    /\ pos = call.pos0 + 4
    /\ NewEvents[Len(NewEvents) - 1] = Token("R_PAREN")

PubParenPathStart ==
    /\ Ahead(0) = "PUB_KW"
    /\ Ahead(1) = "L_PAREN"
    /\ Ahead(2) \in {"CRATE_KW", "SELF_KW", "SUPER_KW", "IDENT"}
    /\ Ahead(3) = "COLON"

\* C8: at `pub (`, then crate, self, super or an identifier, then `:`,
\* opt_visibility does not consume the parenthesis: the VISIBILITY node holds
\* only `pub`, the cursor is left on `(` and the result is true, for either
\* value of in_tuple_field.
C8_MultiSegmentPathKeepsParens ==
    (OptVisibilityCalled /\ PubParenPathStart) => OnlyPubConsumed

C8_Witness ==
    /\ OptVisibilityCalled
    /\ call.args[1] = FALSE
    /\ Ahead(0) = "PUB_KW"
    /\ Ahead(1) = "L_PAREN"
    /\ Ahead(2) = "SUPER_KW"
    /\ Ahead(3) = "COLON"
    /\ pos = call.pos0 + 1

----------------------------------------------------------------------------
(* error_block.                                                            *)

ErrorBlockCalled == call.op = "error_block"

\* C9: a call of error_block at `{` appends exactly one node, of kind ERROR,
\* whose open event is the first and whose close event is the last event of
\* the call; inside it come the error message, then the `{` token, then the
\* interior, then the `}` that closes the region if the input has one, and
\* then the cursor is just after that `}`; no marker of the call is left
\* unresolved and every token the call consumed lies in the node.
C9_ErrorBlockContainment ==
    ErrorBlockCalled
        => /\ LogKept
           /\ OneNode(NewEvents, "ERROR")
           /\ AllResolved(NewEvents)
           /\ NewEvents[2] = Ev("Error", call.args[1], 0)
           /\ NewEvents[3] = Token("L_CURLY")
           /\ pos = call.pos0 + RawTokens(NewEvents)
           /\ ClosingBrace(call.pos0 + 1, 0) >= 0
                => /\ NewEvents[Len(NewEvents) - 1] = Token("R_CURLY")
                   /\ pos = ClosingBrace(call.pos0 + 1, 0) + 1

C9_Witness ==
    /\ ErrorBlockCalled
    /\ tokens = <<"L_CURLY", "SHEBANG", "R_CURLY", "IDENT">>
    /\ pos = Len(tokens) - 1
    /\ NewEvents[Len(NewEvents) - 1] = Token("R_CURLY")

----------------------------------------------------------------------------
(* The unit entries.                                                       *)

\* C10: on every finite token sequence each unit entry (source_file,
\* macro_stmts, macro_items) terminates, and when it has returned the cursor
\* is at the end of the input and every input token has been consumed by
\* exactly one Token event of the log.
C10_Totality ==
    /\ <>(pc = "done")
    /\ [](pc = "done" => (at(Here, "EOF") /\ pos = Len(tokens) /\ EachTokenOnce))

C10_Witness ==
    /\ pc = "done"
    /\ call.op = "macro_stmts"
    /\ tokens = <<"SEMICOLON", "R_CURLY", "L_CURLY", "IDENT">>
    /\ pos = Len(tokens)

----------------------------------------------------------------------------
(* Markers and the shape of the log.                                       *)

\* the open and close events of es match like brackets
WellNested(es) ==
    /\ \A i \in 1..Len(es) : Depth(es, i) >= 0
    /\ Depth(es, Len(es)) = 0

\* a unit entry is between its p.start() and its m.complete(..)
InUnitEntry == pc \in {"source_file", "macro_items", "macro_stmts"}

\* C11: after any sequence of calls of the entries and the primitives, every
\* marker that was started has been resolved, once: no open event of the log
\* is left without its kind, and the open and close events of the log match
\* like brackets (a second completion of a marker would add a close event
\* that matches nothing).  While a unit entry is running, the one marker not
\* yet resolved is its own, the outermost open event.
C11_MarkersResolvedAndNested ==
    /\ \A i \in 1..Len(events) : Depth(events, i) >= 0
    /\ ~InUnitEntry => AllResolved(events) /\ WellNested(events)
    /\ InUnitEntry
        => /\ \A i \in 1..Len(events) : events[i].kind = "TOMBSTONE" <=> i = marker
           /\ Depth(events, Len(events)) = 1

\* the path of opt_visibility on which the `)` is missing
C11_Witness ==
    /\ call.op = "opt_visibility"
    /\ tokens = <<"PUB_KW", "L_PAREN", "CRATE_KW">>
    /\ pos = Len(tokens)
    /\ events[Len(events) - 1] = Ev("Error", "expected R_PAREN", 0)
    /\ events[Len(events)] = Ev("Finish", "", 0)

----------------------------------------------------------------------------
(* The entries.                                                            *)

UnitEntries == {"source_file", "macro_stmts", "macro_items"}

FragmentEntries ==
    {"vis", "block", "stmt", "pat", "ty", "expr", "path", "item", "meta_item"}

\* an entry has returned
EntryReturned ==
    \/ call.op \in UnitEntries /\ pc = "done"
    \/ call.op \in FragmentEntries

\* the kind of the root node of a unit entry
RootKind(op) ==
    IF op = "source_file" THEN "SOURCE_FILE"
    ELSE IF op = "macro_stmts" THEN "MACRO_STMTS"
    ELSE "MACRO_ITEMS"

\* es is one completed region: it opens with an open event and every other
\* event lies before the close event that matches it, the last one
OneRegion(es) ==
    /\ Len(es) >= 2
    /\ es[1].t = "Start"
    /\ es[Len(es)].t = "Finish"
    /\ \A i \in 1..(Len(es) - 1) : Depth(es, i) >= 1
    /\ Depth(es, Len(es)) = 0

\* every token the call consumed is a Token event of the call
SpansConsumed == pos = call.pos0 + RawTokens(NewEvents)

\* the token at the cursor starts a visibility (grammar.rs:158 and 202-208)
VisibilityAhead ==
    \/ Ahead(0) = "PUB_KW"
    \/ Ahead(0) = "CRATE_KW" /\ ~(Ahead(1) = "COLON" /\ Ahead(2) = "COLON")

\* C12, as stated: every entry, unit or fragment, produces exactly one
\* completed top-level region spanning all the tokens it consumed, and for a
\* unit entry that region is its root node.
C12_EveryEntryProducesOneRegion ==
    EntryReturned
        => /\ OneRegion(NewEvents)
           /\ SpansConsumed
           /\ call.op \in UnitEntries => OneNode(NewEvents, RootKind(call.op))

\* C12, amended: a unit entry produces exactly one completed region, its
\* root node (SOURCE_FILE, MACRO_STMTS, MACRO_ITEMS), whose open event is the
\* first and whose close event is the last event of the call, spanning every
\* token of the input.  The fragment entry vis produces one VISIBILITY node
\* over the tokens it consumed when a visibility starts at the cursor, and
\* otherwise appends nothing and consumes nothing.  The other fragment
\* entries add no region of their own: the events of the call are those of
\* the one rule they start (nodes closed in order, or an error), never none,
\* and every token consumed is a Token event of the call.
C12_EntryContract ==
    EntryReturned
        => /\ LogKept
           /\ SpansConsumed
           /\ AllResolved(NewEvents)
           /\ WellNested(NewEvents)
           /\ call.op \in UnitEntries
                => OneNode(NewEvents, RootKind(call.op)) /\ pos = Len(tokens)
           /\ call.op = "vis"
                => IF VisibilityAhead THEN OneNode(NewEvents, "VISIBILITY")
                   ELSE NewEvents = <<>> /\ pos = call.pos0
           /\ call.op \in FragmentEntries \ {"vis"} => NewEvents # <<>>

\* vis called where `crate` starts a path: the call returns with no region
C12_Witness ==
    /\ call.op = "vis"
    /\ tokens = <<"CRATE_KW", "COLON", "COLON">>
    /\ pos = 0
    /\ events = <<>>

----------------------------------------------------------------------------
(* The leaf productions and the optional clauses.                          *)

NameRefCalled == call.op = "name_ref"

\* C13: name_ref called at a position that is not the end of the input
\* advances the cursor by exactly one token; at an identifier the events of
\* the call are one NAME_REF node around that token and no error; at any
\* other token they are exactly one error event and then one Token event,
\* for the token that was at the cursor.
C13_NameRefForwardProgress ==
    NameRefCalled /\ Ahead(0) # "EOF"
        => /\ LogKept
           /\ pos = call.pos0 + 1
           /\ IF Ahead(0) = "IDENT"
              THEN NewEvents = <<Ev("Start", "NAME_REF", 0), Token("IDENT"),
                                 Ev("Finish", "", 0)>>
              ELSE NewEvents = <<Ev("Error", "expected identifier", 0),
                                 Token(Ahead(0))>>

\* name_ref at a number, after a first call that consumed an identifier
C13_Witness ==
    /\ NameRefCalled
    /\ tokens = <<"IDENT", "INT_NUMBER">>
    /\ call.pos0 = 1
    /\ pos = 2
    /\ events[Len(events)] = Token("INT_NUMBER")

----------------------------------------------------------------------------
(* precede.                                                                *)

\* the tree the Tree Builder makes of a log, as its steps in order
Tree(es) == process(es, 1, {})

\* the step of tree that opens the node whose open event is at index i
OpenAt(tree, i) == CHOOSE k \in 1..Len(tree) : tree[k].t = "Open" /\ tree[k].at = i

\* the step of tree that closes the node opened at step k
CloseOf(tree, k) ==
    CHOOSE j \in k..Len(tree) :
        /\ tree[j].t = "Close"
        /\ Cardinality({l \in k..j : tree[l].t = "Open"})
             = Cardinality({l \in k..j : tree[l].t = "Close"})
        /\ \A h \in k..(j - 1) :
              Cardinality({l \in k..h : tree[l].t = "Open"})
                 > Cardinality({l \in k..h : tree[l].t = "Close"})

\* tokens consumed before step k of tree: the offset at which a node opened
\* at step k starts, or at which a node closed at step k ends
OffsetAt(tree, k) == RawTokens(SubSeq(tree, 1, k - 1))

\* the marker made by the last precede has been completed
PrecedeCompleted == call.op = "precede" /\ pc = "idle"

\* C14: when a completed marker C has been preceded by a new marker M and M
\* has been completed, no event written before was moved (the log as it was
\* is still there, but for the forward-parent offset of C's open event, and
\* M's placeholder was appended after it); in the tree, M's node opens where
\* M was placed, immediately before the open of C, at the token offset at
\* which C started, so that C is the first child of M; and C's range of
\* tokens is what it was and lies inside the range of M, which closes later.
C14_PrecedePreservesOrder ==
    PrecedeCompleted
        => LET c == call.args[1]
               m == call.ret
               before == Tree(call.events0)
               after == Tree(events)
           IN /\ m = Len(call.events0) + 1
              /\ events[m].t = "Start" /\ events[m].kind # "TOMBSTONE"
              /\ SubSeq(events, 1, Len(call.events0))
                   = [call.events0 EXCEPT ![c].n = m - c]
              /\ OpenAt(after, m) + 1 = OpenAt(after, c)
              /\ OffsetAt(after, OpenAt(after, m))
                   = OffsetAt(before, OpenAt(before, c))
              /\ OffsetAt(after, OpenAt(after, c))
                   = OffsetAt(before, OpenAt(before, c))
              /\ OffsetAt(after, CloseOf(after, OpenAt(after, c)))
                   = OffsetAt(before, CloseOf(before, OpenAt(before, c)))
              /\ CloseOf(after, OpenAt(after, c)) < CloseOf(after, OpenAt(after, m))
              /\ OffsetAt(after, CloseOf(after, OpenAt(after, c)))
                   <= OffsetAt(after, CloseOf(after, OpenAt(after, m)))

\* a node that was itself made by precede is preceded in turn, and the new
\* node takes one more token
C14_Witness ==
    /\ PrecedeCompleted
    /\ tokens = <<"IDENT", "IDENT", "INT_NUMBER">>
    /\ pos = 3
    /\ call.pos0 = 2
    /\ call.args[1] > 1
    /\ events[call.args[1]].kind = "BIN_EXPR"
    /\ events[1].n # 0

----------------------------------------------------------------------------
(* macro_stmts.                                                            *)

\* the step appends the `;` at the cursor as a token, and nothing else
SemiConsumedDirectly ==
    /\ at(Here, "SEMICOLON")
    /\ events' = Append(events, Token("SEMICOLON"))
    /\ pos' = pos + 1

\* C15: macro_stmts leaves its loop only with the cursor at the end of the
\* input, and then completes MACRO_STMTS.  An iteration that starts at `;`
\* appends that `;` as one Token event directly under the MACRO_STMTS node
\* (the only node open), with no node and no error of the statement rule
\* around it.  Every other iteration is a call of the statement rule, made
\* at a token that is neither the end of the input nor `;`.
C15_MacroStmtsLoop ==
    [][pc = "macro_stmts"
        => /\ Depth(events, Len(events)) = 1 /\ events[marker].kind = "TOMBSTONE"
           /\ pc' = "done"
                => /\ pos = Len(tokens)
                   /\ Parser(pos', events') = complete(Here, marker, "MACRO_STMTS")
           /\ pc' = "macro_stmts" /\ at(Here, "SEMICOLON") => SemiConsumedDirectly
           /\ pc' = "macro_stmts" /\ ~SemiConsumedDirectly
                => /\ ~at(Here, "EOF") /\ ~at(Here, "SEMICOLON")
                   /\ Parser(pos', events') \in stmt(Here)
           /\ pc' \in {"macro_stmts", "done"}]_vars

\* macro_stmts has returned from `; x ;`: both `;` are tokens of the root
C15_Witness ==
    /\ pc = "done"
    /\ call.op = "macro_stmts"
    /\ tokens = <<"SEMICOLON", "IDENT", "SEMICOLON">>
    /\ events[2] = Token("SEMICOLON")
    /\ events[Len(events) - 1] = Token("SEMICOLON")
    /\ Len(events) > 5

----------------------------------------------------------------------------
(* error_block at a region that is not closed.                             *)

\* the input has no `}` that closes the region error_block was called at
BraceMissing == ClosingBrace(call.pos0 + 1, 0) = -1

\* the last event error_block appended before it completed its marker
BeforeClose == NewEvents[Len(NewEvents) - 1]

\* C16: error_block tolerates a missing `}`.  Whatever the interior was, the
\* events of the call are one completed ERROR node; after the interior the
\* call appends the `}` at the cursor, or nothing: never an error for a `}`
\* that is not there.  On return the last token the call consumed is `}`,
\* or the cursor is at the end of the input; when the region is not closed
\* in the input, the cursor is at the end of the input and no `}` token
\* ends the node.
C16_MissingBraceTolerated ==
    ErrorBlockCalled
        => /\ OneNode(NewEvents, "ERROR")
           /\ pos = call.pos0 + RawTokens(NewEvents)
           /\ BeforeClose.t # "Error"
           /\ \/ BeforeClose = Token("R_CURLY") /\ tokens[pos] = "R_CURLY"
              \/ pos = Len(tokens)
           /\ BraceMissing
                => /\ pos = Len(tokens)
                   /\ BeforeClose # Token("R_CURLY")
                   /\ BeforeClose.t \in {"Token", "Finish"}

\* neither the region nor the block nested in it is closed: the nested
\* block reports its missing brace, error_block does not
C16_Witness ==
    /\ ErrorBlockCalled
    /\ tokens = <<"L_CURLY", "L_CURLY", "IDENT">>
    /\ BraceMissing
    /\ pos = Len(tokens)
    /\ NewEvents[Len(NewEvents) - 2] = Ev("Error", "expected R_CURLY", 0)

----------------------------------------------------------------------------
(* The optional rules.                                                     *)

\* the call left the cursor and the log as they were
NothingDone == pos = call.pos0 /\ events = call.events0

\* C17: an optional rule is a no-op when its construct is absent.
\* opt_visibility returning false, opt_ret_type returning false (which it
\* does exactly when the current token is not `->`) and opt_rename at a
\* token other than `as` leave the cursor and the log unchanged; and
\* opt_visibility, opt_ret_type return true exactly when the events of the
\* call are one completed VISIBILITY, RET_TYPE node.
C17_OptionalRulesNoOp ==
    /\ call.op = "opt_visibility"
        => /\ LogKept
           /\ call.ret = FALSE => NothingDone
           /\ call.ret = TRUE <=> OneNode(NewEvents, "VISIBILITY")
    /\ call.op = "opt_ret_type"
        => /\ LogKept
           /\ call.ret = FALSE <=> Ahead(0) # "THIN_ARROW"
           /\ call.ret = FALSE => NothingDone
           /\ call.ret = TRUE <=> OneNode(NewEvents, "RET_TYPE")
    /\ call.op = "opt_rename"
        => /\ LogKept
           /\ Ahead(0) # "AS_KW" => NothingDone
           /\ Ahead(0) = "AS_KW" => OneNode(NewEvents, "RENAME")

\* opt_rename called again after it has parsed `as x`: nothing is done
C17_Witness ==
    /\ call.op = "opt_rename"
    /\ tokens = <<"AS_KW", "IDENT", "IDENT">>
    /\ call.pos0 = 2
    /\ NothingDone
    /\ events # <<>>

----------------------------------------------------------------------------
(* The rules that are not optional.                                        *)

NonOptionalRules ==
    {"name", "name_r", "name_ref", "name_ref_or_index", "lifetime", "abi",
     "error_block"}

\* es holds a completed node: its open and close events match like brackets
\* and an open event of es has its kind
HasNode(es) ==
    /\ WellNested(es)
    /\ \E i \in 1..Len(es) : es[i].t = "Start" /\ es[i].kind # "TOMBSTONE"

HasError(es) == \E i \in 1..Len(es) : es[i].t = "Error"

\* C18: a call of a rule that is not optional (name, name_r, name_ref,
\* name_ref_or_index, lifetime, abi, error_block) never returns having
\* appended nothing: the events of the call hold a completed node or an
\* error.  name_r (and name, which is name_r) called at a token that is not
\* an identifier records an error first and opens no node at all, so no
\* NAME node.
C18_NonOptionalRulesReport ==
    call.op \in NonOptionalRules
        => /\ LogKept
           /\ HasNode(NewEvents) \/ HasError(NewEvents)
           /\ call.op \in {"name", "name_r"} /\ Ahead(0) # "IDENT"
                => /\ NewEvents[1] = Ev("Error", "expected a name", 0)
                   /\ \A i \in 1..Len(NewEvents) : NewEvents[i].t # "Start"

\* name_r at `;`, a token of its recovery set: the error, and no progress
C18_Witness ==
    /\ call.op = "name_r"
    /\ call.args[1] = {"SEMICOLON", "COLON"}
    /\ tokens = <<"SEMICOLON", "IDENT">>
    /\ NewEvents = <<Ev("Error", "expected a name", 0)>>
    /\ pos = 0

----------------------------------------------------------------------------
(* One pass, left to right.                                                *)

\* the Token events of the log, in order, are the input tokens before the
\* cursor, in order
TokensInOrder ==
    LET consumed == SelectSeq(events, IsTokenEvent)
    IN /\ Len(consumed) = pos
       /\ \A k \in 1..Len(consumed) : consumed[k] = Token(tokens[k])

\* the event e, or e with the kind its placeholder was waiting for
SameOrResolved(e, f) ==
    \/ f = e
    \/ /\ e.t = "Start" /\ e.kind = "TOMBSTONE"
       /\ f.kind # "TOMBSTONE"
       /\ f = [e EXCEPT !.kind = f.kind]

\* C19: across any sequence of calls of the entries and the primitives the
\* parser goes left to right and never back: the k-th Token event of the
\* log is the k-th token of the input; no step moves the cursor back; and
\* no step removes or reorders an event, the log before a step being a
\* prefix of the log after it but for placeholders that received their kind.
C19_LeftToRight ==
    /\ [](TokensInOrder)
    /\ [][/\ tokens' = tokens
          /\ pos' >= pos
          /\ Len(events') >= Len(events)
          /\ \A i \in 1..Len(events) : SameOrResolved(events[i], events'[i])]_vars

\* three calls, each of which consumed the token at the cursor
C19_Witness ==
    /\ call.op = "name_ref_or_index"
    /\ tokens = <<"IDENT", "IDENT", "INT_NUMBER">>
    /\ call.pos0 = 2
    /\ pos = 3
    /\ Len(events) = 9
    /\ events[8] = Token("INT_NUMBER")

====
